---- MODULE Spec2Model ----
(***************************************************************************)
(* DocuAI: the incremental analysis pipeline of rag_documentation_system   *)
(* (CodebaseRAG) and the generation worker of rag_gui                      *)
(* (RAGDocumentationGUI).                                                  *)
(*                                                                         *)
(* A file of the scanned tree is named by its relative path.  The text of  *)
(* a file is one of MaxContent distinct texts: text c is c one-character   *)
(* lines joined by a newline.  The file system changes only between runs.  *)
(* Writing a document (README.md, docs/<stem>.md, API_DOCUMENTATION.md)    *)
(* succeeds; writing the cache file may fail, as save_cache provides for.  *)
(*                                                                         *)
(* Spec is the pipeline: direct calls of analyze_codebase_parallel, main   *)
(* and the GUI worker.  SpecScan is the walk of scan_codebase over a       *)
(* directory tree, followed by one run over the files found.  SpecJson is  *)
(* the round trip of a map of records through the cache file.              *)
(* SpecGui is the front end with its worker as a thread of its own: the    *)
(* progress queue, the buttons, the status label and the replacement of    *)
(* print; SpecGuiLive adds fair scheduling of worker and check_queue.      *)
(***************************************************************************)
EXTENDS Naturals, FiniteSets, Sequences, TLC

\* ------------------------------------------------------------------ bounds
\* files under the root, distinct texts of a file, largest max_workers of a
\* direct call, file system changes plus runs started
NumFiles == 2
MaxContent == 2
MaxWorkers == 2
MaxEvents == 3
\* candidate entries of the directory tree that scan_codebase walks
NumEntries == 12

\* ------------------------------------------------------- program constants
DefaultWorkers == 4
SequentialWorkers == 1
PreviewCap == 500

FileNames == <<"a.py", "api/a.js", "b.ts", "c.go">>
Files == {FileNames[i] : i \in 1..NumFiles}
Contents == 1..MaxContent

Digests == <<"c4ca4238", "c81e728d", "eccbc87e", "a87ff679">>
Sentinel == ""

EmptyMap == [k \in {} |-> 0]
Put(m, k, v) == [x \in (DOMAIN m) \cup {k} |-> IF x = k THEN v ELSE m[x]]
Min(a, b) == IF a < b THEN a ELSE b

VARIABLES
    content,     \* file system: content[f] = 0 when f does not exist
    readable,    \* file system: whether open(f) succeeds
    diskCache,   \* .rag_cache/analysis_cache.json
    stub,        \* behaviour of the generation capability ask_llm
    mode,        \* entry point of the run in progress, or "idle"
    pc,          \* position of the coordinating thread
    argWorkers,  \* worker count the user configured for the run
    poolSize,    \* number of analyses the run may execute in parallel
    files,       \* result of scan_codebase
    cache,       \* cache snapshot loaded at run start
    results,     \* result map of the run
    pending,     \* submitted tasks no worker has taken yet
    running,     \* tasks inside analyze_file, waiting for ask_llm
    resolved,    \* futures that are done and not yet collected
    raisedOn,    \* files whose analyze_file raised in this run
    hits,        \* files answered from the cache in this run
    generated,   \* files for which analyze_file called ask_llm in this run
    attempts,    \* attempts[f]: analyze_file invocations for f in this run
    saveCalls,   \* save_cache invocations in this run
    saved,       \* outcome of save_cache in this run
    artifacts,   \* documents written in this run
    is_running,  \* RAGDocumentationGUI.is_running
    events,      \* file system changes made and runs started
    tree,        \* directory tree under the root that scan_codebase walks
    walk,        \* directories os.walk has still to visit
    prev,        \* outcome of the last call of analyze_codebase_parallel under a
                 \* stub that never raises, until the sources change
    progress_queue,   \* RAGDocumentationGUI.progress_queue
    progress_var,     \* value of the progress bar
    status_label,     \* text of the status label
    generate_button,  \* state of the Generate button
    stop_button,      \* state of the Stop button
    builtins_print,   \* the function builtins.print is bound to
    threads           \* generation_worker threads: position and locals

fsVars == <<content, readable, tree, walk>>
guiVars == <<progress_queue, progress_var, status_label, generate_button, stop_button,
             builtins_print, threads>>
runVars == <<mode, pc, argWorkers, poolSize, files, cache, results, pending, running,
             resolved, raisedOn, hits, generated, attempts, saveCalls, saved, artifacts>>
vars == <<content, readable, diskCache, stub, mode, pc, argWorkers, poolSize, files,
          cache, results, pending, running, resolved, raisedOn, hits, generated,
          attempts, saveCalls, saved, artifacts, is_running, events, tree, walk, prev,
          progress_queue, progress_var, status_label, generate_button, stop_button,
          builtins_print, threads>>

\* ------------------------------------------------------------ pure helpers

\* hashlib.md5(f.read()).hexdigest(): distinct texts have distinct digests,
\* none of them the empty string
Md5(c) == Digests[c]

\* get_file_hash: the digest of the bytes, "" when the file cannot be opened
get_file_hash(f) == IF readable[f] THEN Md5(content[f]) ELSE Sentinel

\* len(content), len(content.split('\n')), content[:500] of text c
SizeOf(c) == 2 * c - 1
LinesOf(c) == c
PreviewOf(c) == Min(SizeOf(c), PreviewCap)

\* the text ask_llm returns for the analysis prompt of file f with text c
Analysis(f, c) == <<"analysis", f, c>>

UpperCase == <<"A", "B", "C", "D", "E", "F", "G", "H", "I", "J", "K", "L", "M",
               "N", "O", "P", "Q", "R", "S", "T", "U", "V", "W", "X", "Y", "Z">>
LowerCase == <<"a", "b", "c", "d", "e", "f", "g", "h", "i", "j", "k", "l", "m",
               "n", "o", "p", "q", "r", "s", "t", "u", "v", "w", "x", "y", "z">>

\* str.lower()
Lower(s) ==
    [j \in 1..Len(s) |->
        IF \E k \in 1..26 : UpperCase[k] = s[j]
        THEN LowerCase[CHOOSE k \in 1..26 : UpperCase[k] = s[j]]
        ELSE s[j]]

\* kw in s
Contains(s, kw) ==
    \E i \in 1..(Len(s) + 1 - Len(kw)) : SubSeq(s, i, i + Len(kw) - 1) = kw

\* dict.get(key): None when the key is missing
Get(rec, key) == IF key \in DOMAIN rec THEN rec[key] ELSE "None"

ErrorRecord(h) == [error |-> "Could not read file", hash |-> h]

FullRecord(f, c, h) ==
    [hash |-> h, path |-> f, size |-> SizeOf(c), lines |-> LinesOf(c),
     analysis |-> Analysis(f, c), content_preview |-> PreviewOf(c)]

\* scan_codebase: the files that exist under the root
scan_codebase == {f \in Files : content[f] # 0}

\* the fields json.dump writes as numbers: the int values of a record
NumberFields == {"size", "lines"}

\* the decimal digits of n, and the number they spell
RECURSIVE Digits(_)
Digits(n) == IF n < 10 THEN <<n>> ELSE Digits(n \div 10) \o <<n % 10>>
RECURSIVE FromDigits(_)
FromDigits(ds) ==
    IF Len(ds) = 1 THEN ds[1]
    ELSE 10 * FromDigits(SubSeq(ds, 1, Len(ds) - 1)) + ds[Len(ds)]

\* json.dump of a value: an int as its digits, a str as a string literal
JsonValue(fld, v) ==
    IF fld \in NumberFields THEN [t |-> "number", text |-> Digits(v)]
    ELSE [t |-> "string", text |-> v]

\* json.dump(cache_data): one member per path, each an object of the
\* record's fields
JsonDump(m) ==
    [k \in DOMAIN m |-> [fld \in DOMAIN m[k] |-> JsonValue(fld, m[k][fld])]]

\* json.load of a value
PyValue(j) == IF j.t = "number" THEN FromDigits(j.text) ELSE j.text

\* mutant: the loader discards the records of read failures
JsonLoadDropsErrors(doc) ==
    [k \in {x \in DOMAIN doc : "error" \notin DOMAIN doc[x]} |->
        [fld \in DOMAIN doc[k] |-> PyValue(doc[k][fld])]]

\* json.load(f) of a complete document
JsonLoad(doc) ==
    [k \in DOMAIN doc |-> [fld \in DOMAIN doc[k] |-> PyValue(doc[k][fld])]]

\* mutant: a damaged document is parsed as far as it goes
load_cache_lenient ==
    IF diskCache.state = "absent" THEN EmptyMap ELSE JsonLoad(diskCache.data)

\* load_cache: the parsed document, {} when absent or unparsable
load_cache == IF diskCache.state = "ok" THEN JsonLoad(diskCache.data) ELSE EmptyMap

\* mutant: the stored fingerprint is looked up under a key no record has
CacheHitWrongKey(f, c) == f \in DOMAIN c /\ Get(c[f], "md5") = get_file_hash(f)

\* the cache test of analyze_file
CacheHit(f, c) == f \in DOMAIN c /\ Get(c[f], "hash") = get_file_hash(f)

\* whether a call of ask_llm may raise / may return under the stub
MayRaise == stub \in {"raises", "flaky"}
MayReturn == stub \in {"returns", "flaky"}

\* no such call has returned since the sources last changed
NoPrev == [results |-> EmptyMap, saved |-> "no"]

\* the front end before the first run: the widgets as setup_gui creates
\* them, an empty queue, print not replaced, no worker thread
ThreadIds == 1..MaxEvents

OriginalPrint == [fn |-> "print", of |-> 0]
custom_print(t) == [fn |-> "custom_print", of |-> t]

NoThread ==
    [pc |-> "none", original_print |-> OriginalPrint, pending |-> {}, total |-> 0,
     cache |-> EmptyMap, results |-> EmptyMap, current |-> "", exc |-> FALSE,
     finished |-> 0, last |-> "", hundred |-> FALSE]

GuiReady ==
    /\ progress_queue = <<>>
    /\ progress_var = 0
    /\ status_label = "Ready"
    /\ generate_button = "normal"
    /\ stop_button = "disabled"
    /\ builtins_print = OriginalPrint
    /\ threads = [t \in ThreadIds |-> NoThread]

NoRun ==
    /\ mode = "idle" /\ pc = "idle"
    /\ argWorkers = 0 /\ poolSize = 0
    /\ files = {} /\ cache = EmptyMap /\ results = EmptyMap
    /\ pending = {} /\ running = {} /\ resolved = EmptyMap
    /\ raisedOn = {} /\ hits = {} /\ generated = {}
    /\ attempts = [f \in Files |-> 0]
    /\ saveCalls = 0 /\ saved = "no" /\ artifacts = {}

Init ==
    /\ content = [f \in Files |-> 1]
    /\ readable = [f \in Files |-> TRUE]
    /\ diskCache = [state |-> "absent", data |-> EmptyMap]
    /\ stub \in {"returns", "raises", "flaky"}
    /\ NoRun
    /\ is_running = FALSE
    /\ events = 0
    /\ tree = {}
    /\ walk = {}
    /\ prev = NoPrev
    /\ GuiReady

\* --------------------------------------------------------- the environment

\* a file is created, edited or deleted between two runs
EditFile(f, c) ==
    /\ mode = "idle" /\ events + 1 < MaxEvents
    /\ c # content[f]
    /\ content' = [content EXCEPT ![f] = c]
    /\ events' = events + 1
    /\ prev' = NoPrev
    /\ UNCHANGED <<readable, diskCache, stub, runVars, is_running, tree, walk, guiVars>>

\* a file becomes unreadable, or readable again, between two runs
Chmod(f) ==
    /\ mode = "idle" /\ events + 1 < MaxEvents
    /\ content[f] # 0
    /\ readable' = [readable EXCEPT ![f] = ~readable[f]]
    /\ events' = events + 1
    /\ prev' = NoPrev
    /\ UNCHANGED <<content, diskCache, stub, runVars, is_running, tree, walk, guiVars>>

\* ------------------------------------------------------------ analyze_file

Remove(m, k) == [x \in (DOMAIN m) \ {k} |-> m[x]]

\* a future that holds a result, a future that holds an exception
Returned(rec) == [exc |-> FALSE, result |-> rec]
Raised == [exc |-> TRUE]

\* mutant: a cache hit returns the cached record stripped to its fingerprint
AnalyzeStepHitStripped(f, c) ==
    IF CacheHit(f, c) THEN [kind |-> "hit", rec |-> [hash |-> c[f].hash]]
    ELSE IF ~readable[f] THEN [kind |-> "unreadable", rec |-> ErrorRecord(get_file_hash(f))]
    ELSE [kind |-> "call", rec |-> FullRecord(f, content[f], get_file_hash(f))]

\* mutant: a failed read is ignored and the analysis goes on to ask_llm
AnalyzeStepReadGoesOn(f, c) ==
    IF CacheHit(f, c) THEN [kind |-> "hit", rec |-> c[f]]
    ELSE [kind |-> "call", rec |-> FullRecord(f, content[f], get_file_hash(f))]

\* what analyze_file does before it reaches ask_llm: "hit" and "unreadable"
\* return at once, "call" goes on to the generation capability
AnalyzeStep(f, c) ==
    IF CacheHit(f, c) THEN [kind |-> "hit", rec |-> c[f]]
    ELSE IF ~readable[f] THEN [kind |-> "unreadable", rec |-> ErrorRecord(get_file_hash(f))]
    ELSE [kind |-> "call", rec |-> FullRecord(f, content[f], get_file_hash(f))]

\* ------------------------------------------------------------- save_cache

\* mutant: the results are merged into the loaded cache and that is saved
SavedDocumentMerged(res) ==
    [state |-> "ok",
     data |-> JsonDump([f \in (DOMAIN cache) \cup (DOMAIN res) |->
                          IF f \in DOMAIN res THEN res[f] ELSE cache[f]])]

\* mutant: an empty result map is not written to the cache file
SavedDocumentSkipsEmpty(res) ==
    IF res = EmptyMap THEN diskCache ELSE [state |-> "ok", data |-> JsonDump(res)]

\* json.dump into the cache file; a failure is printed and swallowed, and
\* leaves the file as it was or holding a damaged document of res
SavedDocument(res) == [state |-> "ok", data |-> JsonDump(res)]
DamagedDocument(res) == [state |-> "corrupt", data |-> JsonDump(res)]

SaveCache(res) ==
    /\ saveCalls' = saveCalls + 1
    /\ \/ /\ diskCache' = SavedDocument(res)
          /\ saved' = "ok"
       \/ /\ diskCache' \in {diskCache, DamagedDocument(res)}
          /\ saved' = "failed"

\* ---------------------------------------------- analyze_codebase_parallel

\* scan, load the cache, create the pool and submit one task per file
SubmitAll(entry, configured, n) ==
    /\ mode = "idle" /\ events < MaxEvents
    /\ events' = events + 1
    /\ mode' = entry
    /\ pc' = "collect"
    /\ argWorkers' = configured
    /\ poolSize' = n
    /\ files' = scan_codebase
    /\ cache' = load_cache
    /\ results' = EmptyMap
    /\ pending' = scan_codebase
    /\ UNCHANGED <<running, resolved, raisedOn, hits, generated, attempts, saveCalls,
                   saved, artifacts>>
    /\ UNCHANGED <<fsVars, guiVars, prev, diskCache, stub, is_running>>

\* a direct call of analyze_codebase_parallel(max_workers = n)
CallAnalyzeParallel(n) == SubmitAll("lib", n, n)

\* main(): --workers is parsed into args.workers; generate_all_documentation
\* calls analyze_codebase_parallel() with its default
Main(w) == SubmitAll("cli", w, DefaultWorkers)

InPool == mode \in {"lib", "cli"} /\ pc = "collect"

\* mutant: one thread per submitted task
IdleWorkerUnbounded == TRUE

\* ThreadPoolExecutor(max_workers): a task starts only on an idle worker
IdleWorker == Cardinality(running) < poolSize

\* mutant: analyze_file stores the record of a cache miss in its cache argument
WorkerBeginMemoizes(f) ==
    /\ InPool /\ f \in pending /\ IdleWorker
    /\ pending' = pending \ {f}
    /\ attempts' = [attempts EXCEPT ![f] = @ + 1]
    /\ LET a == AnalyzeStep(f, cache) IN
        /\ hits' = IF a.kind = "hit" THEN hits \cup {f} ELSE hits
        /\ generated' = IF a.kind = "call" THEN generated \cup {f} ELSE generated
        /\ running' = IF a.kind = "call" THEN running \cup {f} ELSE running
        /\ resolved' = IF a.kind = "call" THEN resolved
                       ELSE Put(resolved, f, Returned(a.rec))
        /\ cache' = IF a.kind = "hit" THEN cache ELSE Put(cache, f, a.rec)
    /\ UNCHANGED <<mode, pc, argWorkers, poolSize, files, results, raisedOn,
                   saveCalls, saved, artifacts>>
    /\ UNCHANGED <<fsVars, guiVars, prev, diskCache, stub, is_running, events>>

\* a pool worker takes a task and runs analyze_file up to ask_llm
WorkerBegin(f) ==
    /\ InPool /\ f \in pending /\ IdleWorker
    /\ pending' = pending \ {f}
    /\ attempts' = [attempts EXCEPT ![f] = @ + 1]
    /\ LET a == AnalyzeStep(f, cache) IN
        /\ hits' = IF a.kind = "hit" THEN hits \cup {f} ELSE hits
        /\ generated' = IF a.kind = "call" THEN generated \cup {f} ELSE generated
        /\ running' = IF a.kind = "call" THEN running \cup {f} ELSE running
        /\ resolved' = IF a.kind = "call" THEN resolved
                       ELSE Put(resolved, f, Returned(a.rec))
    /\ UNCHANGED <<mode, pc, argWorkers, poolSize, files, cache, results, raisedOn,
                   saveCalls, saved, artifacts>>
    /\ UNCHANGED <<fsVars, guiVars, prev, diskCache, stub, is_running, events>>

\* mutant: the worker stores its record in the result map itself
WorkerReturnWritesMap(f) ==
    /\ InPool /\ f \in running /\ MayReturn
    /\ running' = running \ {f}
    /\ results' = Put(results, f, AnalyzeStep(f, cache).rec)
    /\ UNCHANGED <<mode, pc, argWorkers, poolSize, files, cache, resolved, pending,
                   raisedOn, hits, generated, attempts, saveCalls, saved, artifacts>>
    /\ UNCHANGED <<fsVars, guiVars, prev, diskCache, stub, is_running, events>>

\* mutant: the workers share the buffer the record is built in, so a worker
\* may return the record of another analysis in flight
WorkerReturnShared(f) ==
    /\ InPool /\ f \in running /\ MayReturn
    /\ running' = running \ {f}
    /\ \E g \in running :
        resolved' = Put(resolved, f, Returned(AnalyzeStep(g, cache).rec))
    /\ UNCHANGED <<mode, pc, argWorkers, poolSize, files, cache, results, pending,
                   raisedOn, hits, generated, attempts, saveCalls, saved, artifacts>>
    /\ UNCHANGED <<fsVars, guiVars, prev, diskCache, stub, is_running, events>>

\* ask_llm returns and analyze_file returns the record
WorkerReturn(f) ==
    /\ InPool /\ f \in running /\ MayReturn
    /\ running' = running \ {f}
    /\ resolved' = Put(resolved, f, Returned(AnalyzeStep(f, cache).rec))
    /\ UNCHANGED <<mode, pc, argWorkers, poolSize, files, cache, results, pending,
                   raisedOn, hits, generated, attempts, saveCalls, saved, artifacts>>
    /\ UNCHANGED <<fsVars, guiVars, prev, diskCache, stub, is_running, events>>

\* ask_llm raises: nothing in analyze_file catches it, the future holds it
WorkerRaise(f) ==
    /\ InPool /\ f \in running /\ MayRaise
    /\ running' = running \ {f}
    /\ resolved' = Put(resolved, f, Raised)
    /\ raisedOn' = raisedOn \cup {f}
    /\ UNCHANGED <<mode, pc, argWorkers, poolSize, files, cache, results, pending,
                   hits, generated, attempts, saveCalls, saved, artifacts>>
    /\ UNCHANGED <<fsVars, guiVars, prev, diskCache, stub, is_running, events>>

\* mutant: an exception of a future cancels the tasks not yet started
CollectCancels(f) ==
    /\ InPool /\ f \in DOMAIN resolved
    /\ resolved' = Remove(resolved, f)
    /\ results' = IF resolved[f].exc THEN results
                  ELSE Put(results, f, resolved[f].result)
    /\ pending' = IF resolved[f].exc THEN {} ELSE pending
    /\ UNCHANGED <<mode, pc, argWorkers, poolSize, files, cache, running,
                   raisedOn, hits, generated, attempts, saveCalls, saved, artifacts>>
    /\ UNCHANGED <<fsVars, guiVars, prev, diskCache, stub, is_running, events>>

\* the coordinator takes the next completed future: a result goes into the
\* result map, an exception is printed
Collect(f) ==
    /\ InPool /\ f \in DOMAIN resolved
    /\ resolved' = Remove(resolved, f)
    /\ results' = IF resolved[f].exc THEN results
                  ELSE Put(results, f, resolved[f].result)
    /\ UNCHANGED <<mode, pc, argWorkers, poolSize, files, cache, pending, running,
                   raisedOn, hits, generated, attempts, saveCalls, saved, artifacts>>
    /\ UNCHANGED <<fsVars, guiVars, prev, diskCache, stub, is_running, events>>

\* mutant: the coordinator does not wait for the tasks that are running
AllSubmitted == pending = {} /\ resolved = EmptyMap

\* as_completed is exhausted, the pool is shut down, the results are saved
AllCollected == pending = {} /\ running = {} /\ resolved = EmptyMap

SaveAndReturn ==
    /\ InPool /\ AllCollected
    /\ SaveCache(results)
    /\ pc' = IF mode = "lib" THEN "done" ELSE "readme"
    /\ UNCHANGED <<mode, argWorkers, poolSize, files, cache, results, pending, running,
                   resolved, raisedOn, hits, generated, attempts, artifacts>>
    /\ UNCHANGED <<fsVars, guiVars, prev, stub, is_running, events>>

\* the run is over: its local state is gone
EndRun ==
    /\ mode' = "idle" /\ pc' = "idle"
    /\ argWorkers' = 0 /\ poolSize' = 0
    /\ files' = {} /\ cache' = EmptyMap /\ results' = EmptyMap
    /\ pending' = {} /\ running' = {} /\ resolved' = EmptyMap
    /\ raisedOn' = {} /\ hits' = {} /\ generated' = {}
    /\ attempts' = [f \in Files |-> 0]
    /\ saveCalls' = 0 /\ saved' = "no" /\ artifacts' = {}
    /\ prev' = IF mode = "lib" /\ pc = "done" /\ ~MayRaise
               THEN [results |-> results, saved |-> saved]
               ELSE NoPrev

\* analyze_codebase_parallel returns its result map to the caller
ReturnResults ==
    /\ mode = "lib" /\ pc = "done"
    /\ EndRun
    /\ UNCHANGED <<fsVars, guiVars, diskCache, stub, is_running, events>>

\* ------------------------------------------------- the document assembler

Stems == <<"a", "a", "b", "c">>
\* Path(file_path).stem
Stem(f) == Stems[CHOOSE i \in 1..NumFiles : FileNames[i] = f]
\* the documents of a run, as paths below the root
ReadmeFile == <<"README.md">>
ApiFile == <<"API_DOCUMENTATION.md">>
DocName(f) == <<"docs", Stem(f)>>

\* records generate_component_docs writes a document for
WithAnalysis(res) == {f \in DOMAIN res : Get(res[f], "analysis") # "None"}

\* the characters of the relative paths
FileChars == <<
    <<"a", ".", "p", "y">>,
    <<"a", "p", "i", "/", "a", ".", "j", "s">>,
    <<"b", ".", "t", "s">>,
    <<"c", ".", "g", "o">> >>
PathText(f) == FileChars[CHOOSE i \in 1..NumFiles : FileNames[i] = f]

\* what the text ask_llm returns for the analysis prompt of text c says about
\* an API: text 1 is described by "Endpoint", text 2 by "API", the others by
\* neither word
AnalysisTexts == <<
    <<"E", "n", "d", "p", "o", "i", "n", "t">>,
    <<"A", "P", "I">>,
    <<"t", "e", "x", "t">>,
    <<"c", "o", "d", "e">> >>

ApiKeyword == <<"a", "p", "i">>
EndpointKeyword == <<"e", "n", "d", "p", "o", "i", "n", "t">>

\* the paths k with 'api' in k.lower()
ApiPaths == {f \in Files : Contains(Lower(PathText(f)), ApiKeyword)}

\* the texts c whose analysis a has 'endpoint' in a.lower()
EndpointTexts ==
    {c \in 1..Len(AnalysisTexts) : Contains(Lower(AnalysisTexts[c]), EndpointKeyword)}

\* 'endpoint' in v.get('analysis', '').lower(): the default '' has no keyword
SaysEndpoint(rec) == "analysis" \in DOMAIN rec /\ rec.analysis[3] \in EndpointTexts

\* mutant: only the path is searched
ApiFilesPathOnly(res) == {f \in DOMAIN res : f \in ApiPaths}

\* 'api' in k.lower() or 'endpoint' in v.get('analysis', '').lower()
ApiFiles(res) == {f \in DOMAIN res : f \in ApiPaths \/ SaysEndpoint(res[f])}

\* generate_readme: the overview, structure and setup prompts, in a row;
\* TRUE when all three calls of ask_llm may return
ReadmeReturns == MayReturn

\* Step 2 of generate_all_documentation: an exception of ask_llm leaves
\* generate_readme, generate_all_documentation and main uncaught
GenerateReadme ==
    /\ mode = "cli" /\ pc = "readme"
    /\ \/ /\ MayRaise
          /\ pc' = "crashed"
          /\ UNCHANGED artifacts
       \/ /\ ReadmeReturns
          /\ pc' = "components"
          /\ artifacts' = artifacts \cup {ReadmeFile}
    /\ UNCHANGED <<mode, argWorkers, poolSize, files, cache, results, pending, running,
                   resolved, raisedOn, hits, generated, attempts, saveCalls, saved>>
    /\ UNCHANGED <<fsVars, guiVars, prev, diskCache, stub, is_running, events>>

\* documents generate_component_docs has written when a call of ask_llm
\* raises: those of the records before the one whose call raised
DocsBeforeRaise(res) ==
    IF stub = "raises" THEN {{}}
    ELSE UNION {SUBSET {DocName(f) : f \in WithAnalysis(res) \ {g}} : g \in WithAnalysis(res)}

\* Step 3 of generate_all_documentation
GenerateComponentDocs ==
    /\ mode = "cli" /\ pc = "components"
    /\ \/ /\ MayRaise /\ WithAnalysis(results) # {}
          /\ pc' = "crashed"
          /\ \E written \in DocsBeforeRaise(results) : artifacts' = artifacts \cup written
       \/ /\ MayReturn \/ WithAnalysis(results) = {}
          /\ pc' = "api"
          /\ artifacts' = artifacts \cup {DocName(f) : f \in WithAnalysis(results)}
    /\ UNCHANGED <<mode, argWorkers, poolSize, files, cache, results, pending, running,
                   resolved, raisedOn, hits, generated, attempts, saveCalls, saved>>
    /\ UNCHANGED <<fsVars, guiVars, prev, diskCache, stub, is_running, events>>

\* Step 4 of generate_all_documentation
GenerateApiDocs ==
    /\ mode = "cli" /\ pc = "api"
    /\ \/ /\ MayRaise /\ ApiFiles(results) # {}
          /\ pc' = "crashed"
          /\ UNCHANGED artifacts
       \/ /\ MayReturn \/ ApiFiles(results) = {}
          /\ pc' = "done"
          /\ artifacts' = IF ApiFiles(results) # {}
                          THEN artifacts \cup {ApiFile} ELSE artifacts
    /\ UNCHANGED <<mode, argWorkers, poolSize, files, cache, results, pending, running,
                   resolved, raisedOn, hits, generated, attempts, saveCalls, saved>>
    /\ UNCHANGED <<fsVars, guiVars, prev, diskCache, stub, is_running, events>>

\* the process ends: main returns, or dies of the uncaught exception
ExitMain ==
    /\ mode = "cli" /\ pc \in {"done", "crashed"}
    /\ EndRun
    /\ UNCHANGED <<fsVars, guiVars, diskCache, stub, is_running, events>>

\* ------------------------------------------- RAGDocumentationGUI (rag_gui)

\* start_generation: refuses while is_running, and its button is disabled
\* until check_queue has seen "finished"; w is the value of the worker
\* spinbox, which generation_worker never reads
StartGeneration(w) ==
    /\ mode = "idle" /\ events < MaxEvents
    /\ ~is_running
    /\ is_running' = TRUE
    /\ events' = events + 1
    /\ mode' = "gui"
    /\ pc' = "gui_scan"
    /\ argWorkers' = w
    /\ poolSize' = SequentialWorkers
    /\ UNCHANGED <<files, cache, results, pending, running, resolved, raisedOn, hits,
                   generated, attempts, saveCalls, saved, artifacts>>
    /\ UNCHANGED <<fsVars, guiVars, prev, diskCache, stub>>

\* generation_worker: scan, then load the cache unless "Use Cache" is off
GuiScan(use_cache) ==
    /\ mode = "gui" /\ pc = "gui_scan"
    /\ files' = scan_codebase
    /\ pending' = scan_codebase
    /\ cache' = IF use_cache THEN load_cache ELSE EmptyMap
    /\ pc' = "gui_loop"
    /\ UNCHANGED <<mode, argWorkers, poolSize, results, running, resolved, raisedOn,
                   hits, generated, attempts, saveCalls, saved, artifacts>>
    /\ UNCHANGED <<fsVars, guiVars, prev, diskCache, stub, is_running, events>>

\* mutant: the loop does not test the stop flag
GuiAnalyzeIgnoresStop(f) ==
    /\ mode = "gui" /\ pc = "gui_loop"
    /\ f \in pending
    /\ pending' = pending \ {f}
    /\ attempts' = [attempts EXCEPT ![f] = @ + 1]
    /\ LET a == AnalyzeStep(f, cache) IN
        /\ hits' = IF a.kind = "hit" THEN hits \cup {f} ELSE hits
        /\ generated' = IF a.kind = "call" THEN generated \cup {f} ELSE generated
        /\ running' = IF a.kind = "call" THEN {f} ELSE running
        /\ results' = IF a.kind = "call" THEN results ELSE Put(results, f, a.rec)
        /\ pc' = IF a.kind = "call" THEN "gui_llm" ELSE "gui_loop"
    /\ UNCHANGED <<mode, argWorkers, poolSize, files, cache, resolved, raisedOn,
                   saveCalls, saved, artifacts>>
    /\ UNCHANGED <<fsVars, guiVars, prev, diskCache, stub, is_running, events>>

\* the analysis loop takes the next file: analyze_file up to ask_llm
GuiAnalyze(f) ==
    /\ mode = "gui" /\ pc = "gui_loop"
    /\ is_running /\ f \in pending
    /\ pending' = pending \ {f}
    /\ attempts' = [attempts EXCEPT ![f] = @ + 1]
    /\ LET a == AnalyzeStep(f, cache) IN
        /\ hits' = IF a.kind = "hit" THEN hits \cup {f} ELSE hits
        /\ generated' = IF a.kind = "call" THEN generated \cup {f} ELSE generated
        /\ running' = IF a.kind = "call" THEN {f} ELSE running
        /\ results' = IF a.kind = "call" THEN results ELSE Put(results, f, a.rec)
        /\ pc' = IF a.kind = "call" THEN "gui_llm" ELSE "gui_loop"
    /\ UNCHANGED <<mode, argWorkers, poolSize, files, cache, resolved, raisedOn,
                   saveCalls, saved, artifacts>>
    /\ UNCHANGED <<fsVars, guiVars, prev, diskCache, stub, is_running, events>>

\* ask_llm returns: the record goes into analysis_results
GuiLlmReturn(f) ==
    /\ mode = "gui" /\ pc = "gui_llm" /\ f \in running /\ MayReturn
    /\ running' = {}
    /\ results' = Put(results, f, AnalyzeStep(f, cache).rec)
    /\ pc' = "gui_loop"
    /\ UNCHANGED <<mode, argWorkers, poolSize, files, cache, pending, resolved, raisedOn,
                   hits, generated, attempts, saveCalls, saved, artifacts>>
    /\ UNCHANGED <<fsVars, guiVars, prev, diskCache, stub, is_running, events>>

\* ask_llm raises: the exception leaves the loop and reaches the handler of
\* generation_worker, which queues the "Error" status
GuiLlmRaise(f) ==
    /\ mode = "gui" /\ pc = "gui_llm" /\ f \in running /\ MayRaise
    /\ running' = {}
    /\ raisedOn' = raisedOn \cup {f}
    /\ pc' = "gui_error"
    /\ UNCHANGED <<mode, argWorkers, poolSize, files, cache, results, pending, resolved,
                   hits, generated, attempts, saveCalls, saved, artifacts>>
    /\ UNCHANGED <<fsVars, guiVars, prev, diskCache, stub, is_running, events>>

\* mutant: the worker saves what it has analysed before it returns on the
\* stop flag
GuiStoppedSaves ==
    /\ mode = "gui" /\ pc = "gui_loop"
    /\ ~is_running
    /\ SaveCache(results)
    /\ pc' = "gui_stopped"
    /\ UNCHANGED <<mode, argWorkers, poolSize, files, cache, results, pending, running,
                   resolved, raisedOn, hits, generated, attempts, artifacts>>
    /\ UNCHANGED <<fsVars, guiVars, prev, stub, is_running, events>>

\* the loop is left with the stop flag set (break, or the test after the
\* loop): generation_worker returns
GuiStopped ==
    /\ mode = "gui" /\ pc = "gui_loop"
    /\ ~is_running
    /\ pc' = "gui_stopped"
    /\ UNCHANGED <<mode, argWorkers, poolSize, files, cache, results, pending, running,
                   resolved, raisedOn, hits, generated, attempts, saveCalls, saved,
                   artifacts>>
    /\ UNCHANGED <<fsVars, guiVars, prev, diskCache, stub, is_running, events>>

\* the loop is exhausted and the stop flag is not set: save the cache
GuiSave ==
    /\ mode = "gui" /\ pc = "gui_loop"
    /\ is_running /\ pending = {}
    /\ SaveCache(results)
    /\ pc' = "gui_readme"
    /\ UNCHANGED <<mode, argWorkers, poolSize, files, cache, results, pending, running,
                   resolved, raisedOn, hits, generated, attempts, artifacts>>
    /\ UNCHANGED <<fsVars, guiVars, prev, stub, is_running, events>>

\* Step 2 of generation_worker; an exception of ask_llm reaches the handler
\* of generation_worker
GuiReadme(selected) ==
    /\ mode = "gui" /\ pc = "gui_readme"
    /\ \/ /\ ~selected
          /\ pc' = "gui_components"
          /\ UNCHANGED artifacts
       \/ /\ selected /\ ReadmeReturns
          /\ pc' = "gui_components"
          /\ artifacts' = artifacts \cup {ReadmeFile}
       \/ /\ selected /\ MayRaise
          /\ pc' = "gui_error"
          /\ UNCHANGED artifacts
    /\ UNCHANGED <<mode, argWorkers, poolSize, files, cache, results, pending, running,
                   resolved, raisedOn, hits, generated, attempts, saveCalls, saved>>
    /\ UNCHANGED <<fsVars, guiVars, prev, diskCache, stub, is_running, events>>

\* Step 3 of generation_worker: generate_component_docs
GuiComponents(selected) ==
    /\ mode = "gui" /\ pc = "gui_components"
    /\ \/ /\ ~selected
          /\ pc' = "gui_api"
          /\ UNCHANGED artifacts
       \/ /\ selected
          /\ MayReturn \/ WithAnalysis(results) = {}
          /\ pc' = "gui_api"
          /\ artifacts' = artifacts \cup {DocName(f) : f \in WithAnalysis(results)}
       \/ /\ selected
          /\ MayRaise /\ WithAnalysis(results) # {}
          /\ pc' = "gui_error"
          /\ \E written \in DocsBeforeRaise(results) : artifacts' = artifacts \cup written
    /\ UNCHANGED <<mode, argWorkers, poolSize, files, cache, results, pending, running,
                   resolved, raisedOn, hits, generated, attempts, saveCalls, saved>>
    /\ UNCHANGED <<fsVars, guiVars, prev, diskCache, stub, is_running, events>>

\* Step 4 of generation_worker: a fixed text, no call of ask_llm
GuiApi(selected) ==
    /\ mode = "gui" /\ pc = "gui_api"
    /\ \/ /\ ~selected \/ ApiFiles(results) = {}
          /\ pc' = "gui_done"
          /\ UNCHANGED artifacts
       \/ /\ selected /\ ApiFiles(results) # {}
          /\ pc' = "gui_done"
          /\ artifacts' = artifacts \cup {ApiFile}
    /\ UNCHANGED <<mode, argWorkers, poolSize, files, cache, results, pending, running,
                   resolved, raisedOn, hits, generated, attempts, saveCalls, saved>>
    /\ UNCHANGED <<fsVars, guiVars, prev, diskCache, stub, is_running, events>>

\* stop_generation: the Stop button is enabled from start_generation until
\* check_queue has seen "finished"
StopGeneration ==
    /\ mode = "gui" /\ is_running
    /\ is_running' = FALSE
    /\ UNCHANGED <<fsVars, guiVars, prev, diskCache, stub, runVars, events>>

\* check_queue takes the "finished" event of the worker
CheckQueueFinished ==
    /\ mode = "gui" /\ pc \in {"gui_done", "gui_stopped", "gui_error"}
    /\ is_running' = FALSE
    /\ EndRun
    /\ UNCHANGED <<fsVars, guiVars, diskCache, stub, events>>

\* ---------------------------------------------------------- specification

\* worker counts a user configures: one that is not the default, and the default
WorkerChoices == {SequentialWorkers, DefaultWorkers}

Next ==
    \/ \E f \in Files, c \in 0..MaxContent : EditFile(f, c)
    \/ \E f \in Files : Chmod(f)
    \/ \E n \in 1..MaxWorkers : CallAnalyzeParallel(n)
    \/ \E w \in WorkerChoices : Main(w)
    \/ \E f \in Files : WorkerBegin(f)
    \/ \E f \in Files : WorkerReturn(f)
    \/ \E f \in Files : WorkerRaise(f)
    \/ \E f \in Files : Collect(f)
    \/ SaveAndReturn
    \/ ReturnResults
    \/ GenerateReadme
    \/ GenerateComponentDocs
    \/ GenerateApiDocs
    \/ ExitMain
    \/ \E w \in WorkerChoices : StartGeneration(w)
    \/ \E u \in BOOLEAN : GuiScan(u)
    \/ \E f \in Files : GuiAnalyze(f)
    \/ \E f \in Files : GuiLlmReturn(f)
    \/ \E f \in Files : GuiLlmRaise(f)
    \/ GuiStopped
    \/ GuiSave
    \/ \E s \in BOOLEAN : GuiReadme(s)
    \/ \E s \in BOOLEAN : GuiComponents(s)
    \/ \E s \in BOOLEAN : GuiApi(s)
    \/ StopGeneration
    \/ CheckQueueFinished

Spec == Init /\ [][Next]_vars

\* ------------------------------------------------------------ scan_codebase
\* The walk of scan_codebase over a directory tree, with names and patterns
\* spelled out character by character.

\* self.ignore_patterns, each pattern as its characters
ignore_patterns == <<
    <<"_", "_", "p", "y", "c", "a", "c", "h", "e", "_", "_">>,
    <<".", "g", "i", "t">>,
    <<".", "v", "s", "c", "o", "d", "e">>,
    <<".", "i", "d", "e", "a">>,
    <<"n", "o", "d", "e", "_", "m", "o", "d", "u", "l", "e", "s">>,
    <<"*", ".", "p", "y", "c">>,
    <<"*", ".", "p", "y", "o">>,
    <<"*", ".", "p", "y", "d">>,
    <<".", "D", "S", "_", "S", "t", "o", "r", "e">>,
    <<"T", "h", "u", "m", "b", "s", ".", "d", "b">>,
    <<".", "e", "n", "v">>,
    <<".", "e", "n", "v", ".", "*">>,
    <<"*", ".", "l", "o", "g">>,
    <<"*", ".", "t", "m", "p">>,
    <<"*", ".", "c", "a", "c", "h", "e">>,
    <<".", "r", "a", "g", "_", "c", "a", "c", "h", "e">>,
    <<"v", "e", "n", "v">>,
    <<"e", "n", "v">>,
    <<".", "v", "e", "n", "v">> >>

\* self.code_extensions
code_extensions == {
    <<".", "p", "y">>,
    <<".", "j", "s">>,
    <<".", "t", "s">>,
    <<".", "j", "s", "x">>,
    <<".", "t", "s", "x">>,
    <<".", "j", "a", "v", "a">>,
    <<".", "c", "p", "p">>,
    <<".", "c">>,
    <<".", "h">>,
    <<".", "c", "s">>,
    <<".", "p", "h", "p">>,
    <<".", "r", "b">>,
    <<".", "g", "o">>,
    <<".", "r", "s">>,
    <<".", "s", "w", "i", "f", "t">>,
    <<".", "k", "t">>,
    <<".", "s", "c", "a", "l", "a">>,
    <<".", "h", "t", "m", "l">>,
    <<".", "c", "s", "s">>,
    <<".", "s", "c", "s", "s">>,
    <<".", "s", "a", "s", "s">>,
    <<".", "v", "u", "e">>,
    <<".", "s", "v", "e", "l", "t", "e">>,
    <<".", "s", "q", "l">>,
    <<".", "s", "h">>,
    <<".", "b", "a", "s", "h">>,
    <<".", "p", "s", "1">>,
    <<".", "y", "a", "m", "l">>,
    <<".", "y", "m", "l">>,
    <<".", "j", "s", "o", "n">>,
    <<".", "x", "m", "l">>,
    <<".", "t", "o", "m", "l">> }

\* str(self.root_path), an absolute path
RootPath == <<"/", "r", "o", "o", "t", "/", "p">>

\* entries a tree under the root is made of: a path is the sequence of its
\* names below the root, a name the sequence of its characters
Candidates == <<
    [kind |-> "file", path |-> <<<<"a", ".", "p", "y">>>>],
    [kind |-> "dir", path |-> <<<<"i", "g", "n", "o", "r", "e">>>>],
    [kind |-> "file", path |-> <<<<"i", "g", "n", "o", "r", "e">>, <<"b", ".", "p", "y">>>>],
    [kind |-> "dir", path |-> <<<<".", "g", "i", "t">>>>],
    [kind |-> "file", path |-> <<<<".", "g", "i", "t">>, <<"c", "o", "n", "f", "i", "g">>>>],
    [kind |-> "file", path |-> <<<<".", "g", "i", "t">>, <<"h", ".", "p", "y">>>>],
    [kind |-> "file", path |-> <<<<"X", ".", "P", "Y">>>>],
    [kind |-> "file", path |-> <<<<".", "e", "n", "v", ".", "j", "s", "o", "n">>>>],
    [kind |-> "file", path |-> <<<<"n", "o", "t", "e", "s", ".", "t", "x", "t">>>>],
    [kind |-> "dir", path |-> <<<<"s", "r", "c">>>>],
    [kind |-> "dir", path |-> <<<<"s", "r", "c">>, <<"v", "e", "n", "v">>>>],
    [kind |-> "file", path |-> <<<<"s", "r", "c">>, <<"v", "e", "n", "v">>, <<"m", ".", "p", "y">>>>],
    [kind |-> "file", path |-> <<<<"s", "r", "c">>, <<"m", ".", "p", "y", "c">>>>] >>

ScanEntries == {Candidates[i] : i \in 1..NumEntries}

Parent(p) == SubSeq(p, 1, Len(p) - 1)
Name(p) == p[Len(p)]

\* the trees: every entry below the first level lies in a directory of the tree
Trees ==
    {t \in SUBSET ScanEntries :
        \A e \in t : Len(e.path) > 1 => [kind |-> "dir", path |-> Parent(e.path)] \in t}

ScanFilePaths == {e.path : e \in {x \in ScanEntries : x.kind = "file"}}
\* the root, named by the empty path, and the directories below it
ScanDirPaths == {<<>>} \cup {e.path : e \in {x \in ScanEntries : x.kind = "dir"}}

\* fnmatch.fnmatch(s, pat) on a POSIX system: "*" matches any run of
\* characters, every other character of these patterns matches itself
RECURSIVE GlobMatch(_, _)
GlobMatch(s, pat) ==
    IF pat = <<>> THEN s = <<>>
    ELSE IF Head(pat) = "*"
         THEN GlobMatch(s, Tail(pat)) \/ (s # <<>> /\ GlobMatch(Tail(s), pat))
         ELSE s # <<>> /\ Head(s) = Head(pat) /\ GlobMatch(Tail(s), Tail(pat))

\* the names of p joined by "/"
RECURSIVE Join(_)
Join(p) ==
    IF p = <<>> THEN <<>>
    ELSE IF Len(p) = 1 THEN p[1]
    ELSE p[1] \o <<"/">> \o Join(Tail(p))

\* str(path) of the entry at p
PathStr(p) == RootPath \o <<"/">> \o Join(p)

\* should_ignore: some pattern matches the name or the whole path string
should_ignore(p) ==
    \E i \in 1..Len(ignore_patterns) :
        \/ GlobMatch(Name(p), ignore_patterns[i])
        \/ GlobMatch(PathStr(p), ignore_patterns[i])

\* Path.suffix: from the last dot of the name, "" when the name has no dot or
\* its last dot is its first or its last character
Suffix(n) ==
    LET dots == {j \in 1..Len(n) : n[j] = "."}
        last == CHOOSE j \in dots : \A k \in dots : k <= j
    IN  IF dots # {} /\ 1 < last /\ last < Len(n)
        THEN SubSeq(n, last, Len(n))
        ELSE <<>>

SubDirs(d) == {e.path : e \in {x \in tree : x.kind = "dir" /\ Parent(x.path) = d}}
FilesIn(d) == {e.path : e \in {x \in tree : x.kind = "file" /\ Parent(x.path) = d}}

\* mutant: the list of sub-directories is left as os.walk produced it
PrunedDirsKeepsAll(d) == SubDirs(d)

\* mutant: the filter keeps the ignored sub-directories
PrunedDirsInverted(d) == {p \in SubDirs(d) : should_ignore(p)}

\* dirs[:] = [d for d in dirs if not self.should_ignore(Path(root) / d)]
PrunedDirs(d) == {p \in SubDirs(d) : ~should_ignore(p)}

\* the files of directory d that scan_codebase appends
Accepted(d) ==
    {p \in FilesIn(d) : ~should_ignore(p) /\ Lower(Suffix(Name(p))) \in code_extensions}

\* one iteration of "for root, dirs, filenames in os.walk(self.root_path)"
WalkDir(d) ==
    /\ mode = "scan" /\ pc = "walk"
    /\ d \in walk
    /\ walk' = (walk \ {d}) \cup PrunedDirs(d)
    /\ files' = files \cup Accepted(d)
    /\ UNCHANGED <<content, readable, tree, diskCache, stub, mode, pc, argWorkers,
                   poolSize, cache, results, pending, running, resolved, raisedOn,
                   hits, generated, attempts, saveCalls, saved, artifacts,
                   is_running, events, prev, guiVars>>

\* the files whose generation call raises, under the stub
RaisedChoices(fs) ==
    IF stub = "returns" THEN {{}} ELSE IF stub = "raises" THEN {fs} ELSE SUBSET fs

\* analyze_codebase_parallel over the scanned files, from the loaded cache to
\* save_cache: the result map does not depend on the order of completion
AnalyzeScanned ==
    /\ mode = "scan" /\ pc = "walk"
    /\ walk = {}
    /\ pc' = "done"
    /\ cache' = load_cache
    /\ \E r \in RaisedChoices(files) :
        /\ raisedOn' = r
        /\ results' = [p \in files \ r |-> AnalyzeStep(p, load_cache).rec]
    /\ hits' = {p \in files : AnalyzeStep(p, load_cache).kind = "hit"}
    /\ generated' = {p \in files : AnalyzeStep(p, load_cache).kind = "call"}
    /\ SaveCache(results')
    /\ UNCHANGED <<content, readable, tree, walk, stub, mode, argWorkers, poolSize,
                   files, pending, running, resolved, attempts, artifacts,
                   is_running, events, prev, guiVars>>

\* a tree under the root, every file of it readable, no cache file yet
InitScan ==
    /\ tree \in Trees
    /\ walk = {<<>>}
    /\ content = [p \in ScanFilePaths |-> 1]
    /\ readable = [p \in ScanFilePaths |-> TRUE]
    /\ diskCache = [state |-> "absent", data |-> EmptyMap]
    /\ stub \in {"returns", "raises", "flaky"}
    /\ mode = "scan" /\ pc = "walk"
    /\ argWorkers = DefaultWorkers /\ poolSize = DefaultWorkers
    /\ files = {} /\ cache = EmptyMap /\ results = EmptyMap
    /\ pending = {} /\ running = {} /\ resolved = EmptyMap
    /\ raisedOn = {} /\ hits = {} /\ generated = {}
    /\ attempts = [f \in Files |-> 0]
    /\ saveCalls = 0 /\ saved = "no" /\ artifacts = {}
    /\ is_running = FALSE
    /\ events = 0
    /\ prev = NoPrev
    /\ GuiReady

NextScan ==
    \/ \E d \in ScanDirPaths : WalkDir(d)
    \/ AnalyzeScanned

SpecScan == InitScan /\ [][NextScan]_vars

\* ------------------------------------------------- save_cache / load_cache
\* The round trip of a map of records through the cache file.

\* sizes and line counts of the records that are saved
JsonSizes == {0, 10, 4096}
JsonLines == {1, 120}

\* a well-formed record of path f: the record of a read failure, or a record
\* of an analysis with fingerprint, path, size, lines, analysis and preview
WellFormedRecord(f, shape) ==
    IF shape[1] = "error" THEN ErrorRecord(IF shape[3] = 0 THEN Sentinel ELSE Md5(shape[2]))
    ELSE [hash |-> Md5(shape[2]), path |-> f, size |-> shape[3], lines |-> shape[4],
          analysis |-> Analysis(f, shape[2]), content_preview |-> Min(shape[3], PreviewCap)]

RecordShapes ==
    {<<k, c, n, l>> : k \in {"error", "full"}, c \in Contents, n \in JsonSizes, l \in JsonLines}

\* a caller holds a map of well-formed records; the cache file is absent
InitJson ==
    /\ \E s \in SUBSET Files : \E shape \in [s -> RecordShapes] :
        results = [f \in s |-> WellFormedRecord(f, shape[f])]
    /\ content = [f \in Files |-> 1]
    /\ readable = [f \in Files |-> TRUE]
    /\ diskCache = [state |-> "absent", data |-> EmptyMap]
    /\ stub = "returns"
    /\ mode = "json" /\ pc = "start"
    /\ argWorkers = 0 /\ poolSize = 0
    /\ files = {} /\ cache = EmptyMap
    /\ pending = {} /\ running = {} /\ resolved = EmptyMap
    /\ raisedOn = {} /\ hits = {} /\ generated = {}
    /\ attempts = [f \in Files |-> 0]
    /\ saveCalls = 0 /\ saved = "no" /\ artifacts = {}
    /\ is_running = FALSE
    /\ events = 0
    /\ tree = {} /\ walk = {}
    /\ prev = NoPrev
    /\ GuiReady

\* save_cache(results)
JsonSave ==
    /\ mode = "json" /\ pc = "start"
    /\ SaveCache(results)
    /\ pc' = "saved"
    /\ UNCHANGED <<mode, argWorkers, poolSize, files, cache, results, pending, running,
                   resolved, raisedOn, hits, generated, attempts, artifacts>>
    /\ UNCHANGED <<fsVars, guiVars, prev, stub, is_running, events>>

\* load_cache()
JsonLoadBack ==
    /\ mode = "json" /\ pc = "saved"
    /\ cache' = load_cache
    /\ pc' = "loaded"
    /\ UNCHANGED <<mode, argWorkers, poolSize, files, results, pending, running,
                   resolved, raisedOn, hits, generated, attempts, saveCalls, saved,
                   artifacts>>
    /\ UNCHANGED <<fsVars, guiVars, prev, diskCache, stub, is_running, events>>

NextJson == JsonSave \/ JsonLoadBack

SpecJson == InitJson /\ [][NextJson]_vars

\* ------------------------------------------------ the front end (rag_gui)
\* generation_worker as a thread beside the Tk main thread: what it puts on
\* progress_queue, what check_queue makes of it, the buttons and the
\* replacement of print.  Thread t is the worker of the t-th run started.

\* events on progress_queue: (action, data) and, for "log", the level
Ev(action, data, text) == [action |-> action, data |-> data, text |-> text]
LogEv(level) == Ev("log", 0, level)
ProgressEv(n) == Ev("progress", n, "")
StatusEv(text) == Ev("status", 0, text)
FinishedEv == Ev("finished", 0, "")

\* progress = 10 + (i + 1) / total_files * 60, i + 1 files out of total done
LoopProgress(done, total) == 10 + (done * 60) \div total

\* a call of print in the core while the worker runs: custom_print puts its
\* message on the queue, the original print writes to the console
Printed == IF builtins_print.fn = "custom_print" THEN <<LogEv("INFO")>> ELSE <<>>
PrintedTimes(k) ==
    IF builtins_print.fn = "custom_print" THEN [i \in 1..k |-> LogEv("INFO")] ELSE <<>>

\* the variables no step of the front end changes
frontFrame == <<content, readable, tree, walk, stub, mode, pc, argWorkers, poolSize,
                files, cache, results, pending, running, resolved, raisedOn, hits,
                generated, attempts, artifacts, prev>>
widgets == <<progress_var, status_label, generate_button, stop_button>>

\* what is remembered of the events a thread has put: how many "finished",
\* the action of the last one, whether progress 100 was among them
Emitted(th, evs) ==
    [th EXCEPT
        !.finished = @ + Cardinality({i \in 1..Len(evs) : evs[i].action = "finished"}),
        !.last = IF evs = <<>> THEN @ ELSE evs[Len(evs)].action,
        !.hundred = @ \/ \E i \in 1..Len(evs) : evs[i] = ProgressEv(100)]

\* thread t goes on as th, having put evs on the queue
Step(t, th, evs) ==
    /\ threads' = [threads EXCEPT ![t] = Emitted(th, evs)]
    /\ progress_queue' = progress_queue \o evs

At(t, where) == threads[t].pc = where

\* the worker threads that have started and not yet returned
ActiveThreads == {t \in ThreadIds : threads[t].pc \notin {"none", "ended"}}

\* a click on a ttk button runs its command unless the button is disabled
ButtonInvokes(state) == state = "normal"

\* start_generation, the command of the Generate button
start_generation ==
    /\ ButtonInvokes(generate_button)
    /\ events < MaxEvents
    /\ ~is_running
    /\ is_running' = TRUE
    /\ generate_button' = "disabled"
    /\ stop_button' = "normal"
    /\ status_label' = "Generating documentation..."
    /\ progress_var' = 0
    /\ events' = events + 1
    /\ threads' = [t \in ThreadIds |->
                     IF t = events + 1 THEN [NoThread EXCEPT !.pc = "init"]
                     ELSE IF threads[t].pc = "ended" THEN NoThread
                     ELSE threads[t]]
    /\ saveCalls' = 0 /\ saved' = "no"
    /\ UNCHANGED <<frontFrame, diskCache, progress_queue, builtins_print>>

\* mutant: stop_generation gives the Generate button back at once
stop_generation_reenables ==
    /\ ButtonInvokes(stop_button)
    /\ is_running' = FALSE
    /\ generate_button' = "normal"
    /\ UNCHANGED <<frontFrame, diskCache, saveCalls, saved, events, progress_queue,
                   progress_var, status_label, stop_button, builtins_print, threads>>

\* stop_generation, the command of the Stop button
stop_generation ==
    /\ ButtonInvokes(stop_button)
    /\ is_running' = FALSE
    /\ UNCHANGED <<frontFrame, diskCache, saveCalls, saved, events, guiVars>>

\* mutant: "finished" always reports success
FinishedLabelAlways(progress) == "Generation completed successfully"

\* the status check_queue shows on "finished"
FinishedLabel(progress) ==
    IF progress = 100 THEN "Generation completed successfully"
    ELSE "Generation stopped"

\* check_queue takes the next event off the queue
check_queue ==
    /\ progress_queue # <<>>
    /\ progress_queue' = Tail(progress_queue)
    /\ LET ev == Head(progress_queue) IN
        /\ progress_var' = IF ev.action = "progress" THEN ev.data ELSE progress_var
        /\ status_label' = IF ev.action = "status" THEN ev.text
                           ELSE IF ev.action = "finished" THEN FinishedLabel(progress_var)
                           ELSE status_label
        /\ is_running' = IF ev.action = "finished" THEN FALSE ELSE is_running
        /\ generate_button' = IF ev.action = "finished" THEN "normal" ELSE generate_button
        /\ stop_button' = IF ev.action = "finished" THEN "disabled" ELSE stop_button
    /\ UNCHANGED <<frontFrame, diskCache, saveCalls, saved, events, builtins_print,
                   threads>>

\* generation_worker: the first two events
GwInit(t) ==
    /\ At(t, "init")
    /\ Step(t, [threads[t] EXCEPT !.pc = "construct"],
            <<LogEv("INFO"), ProgressEv(5)>>)
    /\ UNCHANGED <<frontFrame, diskCache, saveCalls, saved, events, is_running, widgets,
                   builtins_print>>

\* CodebaseRAG(project_path): creating .rag_cache may fail, and the exception
\* reaches the handler of generation_worker before print is replaced
GwConstruct(t, ok) ==
    /\ At(t, "construct")
    /\ Step(t, [threads[t] EXCEPT !.pc = IF ok THEN "save_print" ELSE "except"], <<>>)
    /\ UNCHANGED <<frontFrame, diskCache, saveCalls, saved, events, is_running, widgets,
                   builtins_print>>

\* original_print = print
GwSavePrint(t) ==
    /\ At(t, "save_print")
    /\ Step(t, [threads[t] EXCEPT !.pc = "replace_print",
                                  !.original_print = builtins_print], <<>>)
    /\ UNCHANGED <<frontFrame, diskCache, saveCalls, saved, events, is_running, widgets,
                   builtins_print>>

\* builtins.print = custom_print
GwReplacePrint(t) ==
    /\ At(t, "replace_print")
    /\ builtins_print' = custom_print(t)
    /\ Step(t, [threads[t] EXCEPT !.pc = "scan"], <<>>)
    /\ UNCHANGED <<frontFrame, diskCache, saveCalls, saved, events, is_running, widgets>>

\* Step 1 up to the loop: scan, and load the cache unless "Use Cache" is off
GwScan(t, use_cache) ==
    /\ At(t, "scan")
    /\ Step(t, [threads[t] EXCEPT !.pc = "loop",
                                  !.pending = scan_codebase,
                                  !.total = Cardinality(scan_codebase),
                                  !.cache = IF use_cache THEN load_cache ELSE EmptyMap,
                                  !.results = EmptyMap],
            <<LogEv("INFO"), ProgressEv(10), LogEv("INFO")>>)
    /\ UNCHANGED <<frontFrame, diskCache, saveCalls, saved, events, is_running, widgets,
                   builtins_print>>

\* the record of f is stored and the progress of the loop reported
Analysed(th, f, rec) ==
    [th EXCEPT !.pc = "loop", !.current = "",
               !.results = Put(th.results, f, rec)]
AnalysedEvents(th) ==
    <<ProgressEv(LoopProgress(th.total - Cardinality(th.pending), th.total)),
      LogEv("INFO")>>

\* the loop takes the next file while is_running: analyze_file up to ask_llm
GwAnalyze(t, f) ==
    /\ At(t, "loop")
    /\ is_running /\ f \in threads[t].pending
    /\ LET a == AnalyzeStep(f, threads[t].cache)
           th == [threads[t] EXCEPT !.pending = @ \ {f}]
       IN  IF a.kind = "call"
           THEN Step(t, [th EXCEPT !.pc = "llm", !.current = f], Printed)
           ELSE Step(t, Analysed(th, f, a.rec), AnalysedEvents(th))
    /\ UNCHANGED <<frontFrame, diskCache, saveCalls, saved, events, is_running, widgets,
                   builtins_print>>

\* ask_llm returns
GwLlmReturn(t) ==
    /\ At(t, "llm") /\ MayReturn
    /\ LET th == threads[t] IN
        Step(t, Analysed(th, th.current, AnalyzeStep(th.current, th.cache).rec),
             AnalysedEvents(th))
    /\ UNCHANGED <<frontFrame, diskCache, saveCalls, saved, events, is_running, widgets,
                   builtins_print>>

\* ask_llm raises: the exception leaves the loop
GwLlmRaise(t) ==
    /\ At(t, "llm") /\ MayRaise
    /\ Step(t, [threads[t] EXCEPT !.pc = "restore", !.exc = TRUE, !.current = ""], <<>>)
    /\ UNCHANGED <<frontFrame, diskCache, saveCalls, saved, events, is_running, widgets,
                   builtins_print>>

\* the loop is exhausted, or it breaks on the stop flag
GwLeaveLoop(t) ==
    /\ At(t, "loop")
    /\ threads[t].pending = {} \/ ~is_running
    /\ Step(t, [threads[t] EXCEPT !.pc = "after_loop"], <<>>)
    /\ UNCHANGED <<frontFrame, diskCache, saveCalls, saved, events, is_running, widgets,
                   builtins_print>>

\* if not self.is_running: return
GwReturnOnStop(t) ==
    /\ At(t, "after_loop")
    /\ ~is_running
    /\ Step(t, [threads[t] EXCEPT !.pc = "restore"], <<>>)
    /\ UNCHANGED <<frontFrame, diskCache, saveCalls, saved, events, is_running, widgets,
                   builtins_print>>

\* save_cache(analysis_results), which prints a failure of the write
GwSave(t) ==
    /\ At(t, "after_loop")
    /\ is_running
    /\ SaveCache(threads[t].results)
    /\ Step(t, [threads[t] EXCEPT !.pc = "readme"],
            (IF saved' = "failed" THEN Printed ELSE <<>>) \o <<ProgressEv(70)>>)
    /\ UNCHANGED <<frontFrame, events, is_running, widgets, builtins_print>>

\* Step 2: the README, when selected
GwReadme(t, selected) ==
    /\ At(t, "readme")
    /\ \/ /\ ~selected
          /\ Step(t, [threads[t] EXCEPT !.pc = "components"], <<>>)
       \/ /\ selected /\ ReadmeReturns
          /\ Step(t, [threads[t] EXCEPT !.pc = "components"],
                  <<LogEv("INFO"), LogEv("SUCCESS"), ProgressEv(80)>>)
       \/ /\ selected /\ MayRaise
          /\ Step(t, [threads[t] EXCEPT !.pc = "restore", !.exc = TRUE],
                  <<LogEv("INFO")>>)
    /\ UNCHANGED <<frontFrame, diskCache, saveCalls, saved, events, is_running, widgets,
                   builtins_print>>

\* Step 3: the component documents, when selected; generate_component_docs
\* prints a line for every document it has written
GwComponents(t, selected) ==
    /\ At(t, "components")
    /\ LET with == WithAnalysis(threads[t].results) IN
       \/ /\ ~selected
          /\ Step(t, [threads[t] EXCEPT !.pc = "api"], <<>>)
       \/ /\ selected
          /\ MayReturn \/ with = {}
          /\ Step(t, [threads[t] EXCEPT !.pc = "api"],
                  <<LogEv("INFO")>> \o PrintedTimes(Cardinality(with))
                      \o <<ProgressEv(90)>>)
       \/ /\ selected
          /\ MayRaise /\ with # {}
          /\ \E k \in 0..(IF stub = "raises" THEN 0 ELSE Cardinality(with) - 1) :
                Step(t, [threads[t] EXCEPT !.pc = "restore", !.exc = TRUE],
                     <<LogEv("INFO")>> \o PrintedTimes(k))
    /\ UNCHANGED <<frontFrame, diskCache, saveCalls, saved, events, is_running, widgets,
                   builtins_print>>

\* Step 4, when selected, and the three events of a completed run
GwApi(t, selected) ==
    /\ At(t, "api")
    /\ Step(t, [threads[t] EXCEPT !.pc = "restore"],
            (IF ~selected THEN <<>>
             ELSE IF ApiFiles(threads[t].results) = {} THEN <<LogEv("INFO")>>
             ELSE <<LogEv("INFO"), LogEv("SUCCESS")>>)
            \o <<ProgressEv(100), LogEv("SUCCESS"), StatusEv("Completed")>>)
    /\ UNCHANGED <<frontFrame, diskCache, saveCalls, saved, events, is_running, widgets,
                   builtins_print>>

\* mutant: print is restored only when the steps ran to their end
GwRestorePrintOnSuccess(t) ==
    /\ At(t, "restore")
    /\ builtins_print' = IF threads[t].exc THEN builtins_print
                         ELSE threads[t].original_print
    /\ Step(t, [threads[t] EXCEPT !.pc = IF threads[t].exc THEN "except" ELSE "finally"],
            <<>>)
    /\ UNCHANGED <<frontFrame, diskCache, saveCalls, saved, events, is_running, widgets>>

\* the inner finally: builtins.print = original_print
GwRestorePrint(t) ==
    /\ At(t, "restore")
    /\ builtins_print' = threads[t].original_print
    /\ Step(t, [threads[t] EXCEPT !.pc = IF threads[t].exc THEN "except" ELSE "finally"],
            <<>>)
    /\ UNCHANGED <<frontFrame, diskCache, saveCalls, saved, events, is_running, widgets>>

\* except Exception: the error is logged and the "Error" status queued
GwExcept(t) ==
    /\ At(t, "except")
    /\ Step(t, [threads[t] EXCEPT !.pc = "finally"],
            <<LogEv("ERROR"), StatusEv("Error")>>)
    /\ UNCHANGED <<frontFrame, diskCache, saveCalls, saved, events, is_running, widgets,
                   builtins_print>>

\* mutant: "finished" is put only when no exception was handled
GwFinallyUnlessError(t) ==
    /\ At(t, "finally")
    /\ Step(t, [threads[t] EXCEPT !.pc = "ended"],
            IF threads[t].exc THEN <<>> ELSE <<FinishedEv>>)
    /\ UNCHANGED <<frontFrame, diskCache, saveCalls, saved, events, is_running, widgets,
                   builtins_print>>

\* the outer finally: "finished" is put and the thread ends
GwFinally(t) ==
    /\ At(t, "finally")
    /\ Step(t, [threads[t] EXCEPT !.pc = "ended"], <<FinishedEv>>)
    /\ UNCHANGED <<frontFrame, diskCache, saveCalls, saved, events, is_running, widgets,
                   builtins_print>>

\* a project of zero to NumFiles readable files, no cache file yet, the
\* window just opened
InitGui ==
    /\ \E n \in 0..NumFiles :
        content = [f \in Files |-> IF \E i \in 1..n : FileNames[i] = f THEN 1 ELSE 0]
    /\ readable = [f \in Files |-> TRUE]
    /\ diskCache = [state |-> "absent", data |-> EmptyMap]
    /\ stub \in {"returns", "raises", "flaky"}
    /\ mode = "front" /\ pc = "idle"
    /\ argWorkers = DefaultWorkers /\ poolSize = SequentialWorkers
    /\ files = {} /\ cache = EmptyMap /\ results = EmptyMap
    /\ pending = {} /\ running = {} /\ resolved = EmptyMap
    /\ raisedOn = {} /\ hits = {} /\ generated = {}
    /\ attempts = [f \in Files |-> 0]
    /\ saveCalls = 0 /\ saved = "no" /\ artifacts = {}
    /\ is_running = FALSE
    /\ events = 0
    /\ tree = {} /\ walk = {}
    /\ prev = NoPrev
    /\ GuiReady

GwNext(t) ==
    \/ GwInit(t)
    \/ \E ok \in BOOLEAN : GwConstruct(t, ok)
    \/ GwSavePrint(t)
    \/ GwReplacePrint(t)
    \/ \E u \in BOOLEAN : GwScan(t, u)
    \/ \E f \in Files : GwAnalyze(t, f)
    \/ GwLlmReturn(t)
    \/ GwLlmRaise(t)
    \/ GwLeaveLoop(t)
    \/ GwReturnOnStop(t)
    \/ GwSave(t)
    \/ \E s \in BOOLEAN : GwReadme(t, s)
    \/ \E s \in BOOLEAN : GwComponents(t, s)
    \/ \E s \in BOOLEAN : GwApi(t, s)
    \/ GwRestorePrint(t)
    \/ GwExcept(t)
    \/ GwFinally(t)

NextGui ==
    \/ start_generation
    \/ stop_generation
    \/ check_queue
    \/ \E t \in ThreadIds : GwNext(t)

SpecGui == InitGui /\ [][NextGui]_vars

\* the worker threads are scheduled and Tk keeps calling check_queue
SpecGuiLive ==
    /\ SpecGui
    /\ WF_vars(\E t \in ThreadIds : GwNext(t))
    /\ WF_vars(check_queue)

\* ------------------------------------------------------------- properties

\* the analysis phase of the run in progress is over
AnalysisOver == pc \notin {"idle", "collect", "gui_scan", "gui_loop", "gui_llm"}

\* the run in progress has ended
RunOver == pc \in {"done", "crashed", "gui_done", "gui_stopped", "gui_error"}

\* C1: a file analysed in this run whose entry in the loaded cache stores the
\* file's current fingerprint got the cached record back unchanged, and the
\* generation capability was not called for it
C1_CacheHitReused ==
    \A f \in Files :
        (attempts[f] > 0 /\ f \in DOMAIN cache /\ cache[f].hash = get_file_hash(f)) =>
            /\ f \notin generated
            /\ f \notin running /\ f \notin raisedOn
            /\ f \in DOMAIN resolved \/ f \in DOMAIN results
            /\ f \in DOMAIN resolved => resolved[f] = [exc |-> FALSE, result |-> cache[f]]
            /\ f \in DOMAIN results => results[f] = cache[f]

\* a second run reuses, for an unchanged file, the analysis the first run saved
C1_Witness ==
    /\ \E f \in DOMAIN results :
        /\ f \in hits
        /\ "analysis" \in DOMAIN results[f]
        /\ diskCache.state = "ok" /\ f \in DOMAIN load_cache
        /\ results[f] = load_cache[f]

\* C2 (as claimed): no file whose fingerprint is the sentinel is answered
\* from the cache
C2_SentinelNeverHits == \A f \in hits : get_file_hash(f) # Sentinel

\* C3 (as claimed): once the analysis phase is over, every file whose
\* generation call raised has a record with error set, and no file was left
\* unanalysed because of it
C3_GenerationFailureIsLocal ==
    (AnalysisOver /\ raisedOn # {}) =>
        /\ \A f \in raisedOn : f \in DOMAIN results /\ "error" \in DOMAIN results[f]
        /\ pending = {}
        /\ pc # "gui_error"

\* C4 (as claimed): with a generation capability that raises on every call
\* the pipeline never dies of an uncaught exception
C4_AlwaysRaisingCompletes == stub = "raises" => pc # "crashed"

\* C5: in analyze_codebase_parallel no file is analysed twice, a file that
\* is no longer pending was analysed once, and when the collection is over
\* every scanned file was analysed once and the keys of the result map are
\* the scanned files whose analysis did not raise
C5_DispatchIsolation ==
    mode \in {"lib", "cli"} =>
        /\ \A f \in Files : attempts[f] = (IF f \in files \ pending THEN 1 ELSE 0)
        /\ raisedOn \cap DOMAIN results = {}
        /\ pc # "collect" =>
            /\ \A f \in files : attempts[f] = 1
            /\ DOMAIN results = files \ raisedOn

\* one analysis raised, another one of the same run is in the result map
C5_Witness ==
    /\ mode = "lib" /\ pc = "done"
    /\ raisedOn # {}
    /\ results # EmptyMap

\* C6: never more analyses inside analyze_file than the pool has workers
C6_BoundedParallelism == Cardinality(running) <= poolSize

\* every worker is busy and a task is waiting for one
C6_Witness ==
    /\ mode = "lib"
    /\ poolSize < Cardinality(files)
    /\ Cardinality(running) = poolSize
    /\ pending # {}

\* C7 (as claimed): the number of analyses a run may execute in parallel is
\* the worker count the user configured
C7_PoolSizeIsConfigured == mode \in {"cli", "gui"} => poolSize = argWorkers

\* C8: while the pool works, the cache snapshot never changes, and the result
\* map changes only by the coordinator storing the result of one resolved
\* future, in a step that is no worker's
C8_SingleWriter ==
    [][(InPool /\ InPool') =>
        /\ cache' = cache
        /\ results' # results =>
            /\ pending' = pending /\ running' = running
            /\ \E f \in DOMAIN resolved :
                /\ ~resolved[f].exc
                /\ results' = Put(results, f, resolved[f].result)
                /\ resolved' = Remove(resolved, f)]_vars

\* the coordinator has stored a result while a worker is inside ask_llm
C8_Witness ==
    /\ InPool
    /\ results # EmptyMap
    /\ running # {}
    /\ cache # EmptyMap

\* C9 (as claimed), for the runs in which no generation call raised: a run
\* that has ended called save_cache exactly once, and no worker task was
\* unfinished when it did
C9_SavedOncePerRun ==
    /\ (RunOver /\ raisedOn = {} /\ pc # "gui_error") => saveCalls = 1
    /\ saveCalls > 0 => pending = {} /\ running = {} /\ resolved = EmptyMap

\* C9 (amended): save_cache is called at most once in a run, and only when
\* no task is pending, running or uncollected; analyze_codebase_parallel
\* calls it once, the front end once when its loop ends with the stop flag
\* unset and not at all in a run that is stopped
C9_SavedAtMostOnceAfterWorkers ==
    /\ saveCalls <= 1
    /\ saveCalls = 1 => pending = {} /\ running = {} /\ resolved = EmptyMap
    /\ (mode \in {"lib", "cli"} /\ pc # "collect") => saveCalls = 1
    /\ pc \in {"gui_readme", "gui_components", "gui_api", "gui_done"} => saveCalls = 1
    /\ pc \in {"gui_scan", "gui_loop", "gui_llm", "gui_stopped"} => saveCalls = 0
    /\ (pc = "gui_error" /\ raisedOn # {}) => saveCalls = 0

\* a parallel run over all files, one of which raised, has saved once
C9_Witness ==
    /\ mode = "lib" /\ pc = "done"
    /\ Cardinality(files) = NumFiles
    /\ raisedOn # {}
    /\ saveCalls = 1

\* C10 (as claimed): once a run has saved, the cache file holds exactly the
\* result map of that run
C10_CacheEqualsLastResults ==
    saveCalls = 1 => diskCache.state = "ok" /\ load_cache = results

\* C10 (amended): once save_cache has written, the cache file holds exactly
\* the result map of that run, so no entry of a file outside the scan
C10_SavedCacheIsResults ==
    saved = "ok" =>
        /\ diskCache.state = "ok"
        /\ load_cache = results
        /\ DOMAIN load_cache \subseteq files

\* the loaded cache had an entry for a file that is no longer scanned
C10_Witness ==
    /\ saved = "ok"
    /\ \E f \in DOMAIN cache : f \notin files
    /\ results # EmptyMap

\* the files of the tree that are not ignored, carry an allowed suffix and lie
\* in no ignored directory
ScanExpected ==
    {p \in {e.path : e \in {x \in tree : x.kind = "file"}} :
        /\ ~should_ignore(p)
        /\ Lower(Suffix(Name(p))) \in code_extensions
        /\ \A k \in 1..(Len(p) - 1) : ~should_ignore(SubSeq(p, 1, k))}

\* C11: when the walk of scan_codebase is over, the files it returns are
\* exactly the files of the tree that are not ignored themselves, whose
\* lower-cased suffix is in the extension allow-list and none of whose
\* directories below the root is ignored; and no directory the walk visits is
\* an ignored directory or lies beneath one
C11_ScanReturnsExactlyAllowed ==
    mode = "scan" =>
        /\ walk = {} => files = ScanExpected
        /\ \A d \in walk : \A k \in 1..Len(d) : ~should_ignore(SubSeq(d, 1, k))

\* a scan is over that returned a file with an upper-case suffix, skipped an
\* ignored file with an allowed suffix, and left out allowed files beneath an
\* ignored directory at the first and at the second level
C11_Witness ==
    /\ mode = "scan" /\ walk = {}
    /\ <<<<"X", ".", "P", "Y">>>> \in files
    /\ [kind |-> "file", path |-> <<<<".", "e", "n", "v", ".", "j", "s", "o", "n">>>>] \in tree
    /\ [kind |-> "file", path |-> <<<<".", "g", "i", "t">>, <<"h", ".", "p", "y">>>>] \in tree
    /\ [kind |-> "file",
        path |-> <<<<"s", "r", "c">>, <<"v", "e", "n", "v">>, <<"m", ".", "p", "y">>>>] \in tree

\* the paths a.py and ignore/b.py
PathA == <<<<"a", ".", "p", "y">>>>
PathIgnoreB == <<<<"i", "g", "n", "o", "r", "e">>, <<"b", ".", "p", "y">>>>

\* the root that holds a.py, ignore/b.py and .git/config
ScenarioTree ==
    {[kind |-> "file", path |-> PathA],
     [kind |-> "dir", path |-> <<<<"i", "g", "n", "o", "r", "e">>>>],
     [kind |-> "file", path |-> PathIgnoreB],
     [kind |-> "dir", path |-> <<<<".", "g", "i", "t">>>>],
     [kind |-> "file", path |-> <<<<".", "g", "i", "t">>, <<"c", "o", "n", "f", "i", "g">>>>]}

\* C12 as stated: for the root holding a.py, ignore/b.py and .git/config the
\* scan returns exactly a.py, and the cache after one run holds exactly one
\* entry, for a.py, with a fingerprint that is not the sentinel
C12_ScenarioScansOnlyA ==
    (mode = "scan" /\ tree = ScenarioTree /\ walk = {}) =>
        /\ files = {PathA}
        /\ pc = "done" =>
            /\ DOMAIN load_cache = {PathA}
            /\ load_cache[PathA].hash # Sentinel

\* C12 amended: for that root the scan returns exactly a.py and ignore/b.py,
\* and the cache after one run whose write succeeded holds one entry for each
\* of the two whose analysis did not raise, each with a fingerprint that is
\* not the sentinel
C12_ScenarioScansAAndB ==
    (mode = "scan" /\ tree = ScenarioTree /\ walk = {}) =>
        /\ files = {PathA, PathIgnoreB}
        /\ (pc = "done" /\ saved = "ok") =>
            /\ DOMAIN load_cache = files \ raisedOn
            /\ \A p \in DOMAIN load_cache : load_cache[p].hash # Sentinel

\* the run over that root has saved a cache with both entries
C12_Witness ==
    /\ mode = "scan" /\ tree = ScenarioTree /\ pc = "done" /\ saved = "ok"
    /\ DOMAIN load_cache = {PathA, PathIgnoreB}

\* the record of file f in a run that started from cache c, whatever the
\* number of workers and the order in which the analyses complete
SequentialRecord(f, c) ==
    IF f \in DOMAIN c /\ Get(c[f], "hash") = get_file_hash(f) THEN c[f]
    ELSE IF readable[f] THEN FullRecord(f, content[f], Md5(content[f]))
    ELSE ErrorRecord(Sentinel)

\* C13: with a generation capability that always returns, the result map of a
\* dispatcher run is determined by the scanned files and the starting cache
\* alone: every record collected is the one a sequential analysis gives, and
\* the finished map has one for every scanned file, for a pool of one worker
\* as for the default pool and in every order of completion
C13_WorkerCountIrrelevant ==
    (mode \in {"lib", "cli"} /\ stub = "returns") =>
        /\ \A f \in DOMAIN results : results[f] = SequentialRecord(f, cache)
        /\ pc # "collect" => DOMAIN results = files

\* a run on the default pool has produced the map of a two-file scan, one
\* record from the cache and one from a generation call
C13_Witness ==
    /\ mode = "cli" /\ poolSize = DefaultWorkers /\ stub = "returns"
    /\ pc # "collect"
    /\ Cardinality(DOMAIN results) = 2
    /\ hits # {} /\ generated # {}

\* a call of analyze_codebase_parallel has returned, the sources have not
\* changed since, and the analysis of the following run is over
SecondRunOver == prev.saved # "no" /\ mode \in {"lib", "cli"} /\ pc # "collect"

\* C14 as stated: the second of two runs over unchanged sources, with a
\* generation capability that always returns the same text, has the result
\* map of the first, and leaves the persisted cache equal to what the first
\* run saved
C14_TwiceIdentical ==
    (SecondRunOver /\ prev.saved = "ok") =>
        /\ results = prev.results
        /\ diskCache = SavedDocument(prev.results)

\* C14 amended: the second run has the result map of the first, and when its
\* write of the cache succeeded the persisted cache holds that map, which is
\* what the first run saved if its write succeeded too
C14_TwiceIdenticalResults ==
    SecondRunOver =>
        /\ results = prev.results
        /\ saved = "ok" =>
            /\ diskCache.state = "ok" /\ load_cache = prev.results
            /\ diskCache = SavedDocument(prev.results)

\* a second run over two unchanged files has answered both from the cache the
\* first run saved, and saved in its turn
C14_Witness ==
    /\ SecondRunOver /\ prev.saved = "ok" /\ saved = "ok"
    /\ Cardinality(files) = 2 /\ hits = files

StartedWithoutCache ==
    /\ mode \in {"lib", "cli", "gui"} /\ pc # "gui_scan"
    /\ saved = "no" /\ diskCache.state # "ok"

\* C16: a run that finds the cache file absent or unparsable starts from the
\* empty cache and goes on as a run with nothing cached: no file is answered
\* from the cache, every readable file whose analysis has started went to
\* the generation capability, and the run fails only if that capability raises
C16_LoadCacheNeverFatal ==
    StartedWithoutCache =>
        /\ cache = EmptyMap
        /\ hits = {}
        /\ \A f \in files \ pending : readable[f] => f \in generated
        /\ ~MayRaise => pc # "gui_error"

\* a run that started from a damaged cache file has sent both scanned files
\* to the generation capability
C16_Witness ==
    /\ StartedWithoutCache /\ diskCache.state = "corrupt"
    /\ Cardinality(files) = 2 /\ generated = files
    /\ pending = {} /\ running = {}

ComponentDocs == {a \in artifacts : a[1] = "docs"}

\* C18: after generate_component_docs, with a generation capability that
\* always returns, there is one component document per record with a
\* non-empty analysis: as many documents under docs/ as there are such records
C18_OneDocPerRecord ==
    (mode = "cli" /\ pc \in {"api", "done"} /\ stub = "returns") =>
        Cardinality(ComponentDocs) = Cardinality(WithAnalysis(results))

\* the analysis text of a record, empty when the record has none
AnalysisText(rec) ==
    IF "analysis" \in DOMAIN rec THEN AnalysisTexts[rec.analysis[3]] ELSE <<>>

\* a keyword of the claim, "api" or "endpoint", occurs in s in any case
HasApiWord(s) == Contains(Lower(s), ApiKeyword) \/ Contains(Lower(s), EndpointKeyword)

\* the step of generate_all_documentation after the component documents has
\* made the generation call for the API document: the call raised, or the
\* document was written
ApiCallMade == pc' = "crashed" \/ ApiFile \in artifacts'

\* C19 as stated: the generation call for the API document is made if and
\* only if the relative path or the analysis text of some record contains
\* "api" or "endpoint" in any case
C19_ApiDocIffKeyword ==
    [][(mode = "cli" /\ pc = "api") =>
         (ApiCallMade <=>
            \E f \in DOMAIN results :
                HasApiWord(PathText(f)) \/ HasApiWord(AnalysisText(results[f])))]_vars

\* C19 amended: in generate_all_documentation the generation call for the API
\* document is made if and only if the relative path of some record contains
\* "api" or its analysis text contains "endpoint", in any case; the GUI
\* worker writes the API document only if some record qualifies in that way,
\* and makes no generation call for it
C19_ApiDocIffApiPathOrEndpointText ==
    [][/\ (mode = "cli" /\ pc = "api") =>
            (ApiCallMade <=>
               \E f \in DOMAIN results :
                   \/ Contains(Lower(PathText(f)), ApiKeyword)
                   \/ Contains(Lower(AnalysisText(results[f])), EndpointKeyword))
       /\ (mode = "gui" /\ pc = "gui_api" /\ pc' # "gui_api") =>
            /\ pc' = "gui_done"
            /\ ApiFile \in artifacts' =>
                 \E f \in DOMAIN results :
                     \/ Contains(Lower(PathText(f)), ApiKeyword)
                     \/ Contains(Lower(AnalysisText(results[f])), EndpointKeyword)]_vars

\* the API document has been written for a record whose path has no "api"
\* and whose analysis text speaks of an "Endpoint"
C19_Witness ==
    /\ mode = "cli" /\ pc = "done" /\ ApiFile \in artifacts
    /\ \A f \in DOMAIN results : ~Contains(Lower(PathText(f)), ApiKeyword)

\* a step of analyze_file: an invocation starts, or the generation call of
\* one in flight ends
AnalyzeFileStep == mode' = mode /\ (attempts' # attempts \/ running' # running)

ReadFailed(f) == f \in files /\ ~readable[f] /\ attempts[f] > 0

\* C21: an analysis of a file that cannot be read makes no generation call
\* and raises nothing: its outcome is a record with error set that holds the
\* fingerprint computed for the file, and the dispatcher goes on to analyse
\* every other scanned file
C21_ReadFailureIsARecord ==
    \A f \in Files :
        ReadFailed(f) =>
            /\ f \notin generated /\ f \notin running /\ f \notin raisedOn
            /\ f \in DOMAIN resolved =>
                /\ ~resolved[f].exc
                /\ "error" \in DOMAIN resolved[f].result
                /\ resolved[f].result.hash = get_file_hash(f)
            /\ (mode \in {"lib", "cli"} \/ pc # "gui_loop" \/ f \notin pending) =>
                f \in DOMAIN resolved \/ f \in DOMAIN results
            /\ f \in DOMAIN results =>
                /\ "error" \in DOMAIN results[f]
                /\ results[f].hash = get_file_hash(f)
            /\ (mode \in {"lib", "cli"} /\ pc # "collect") =>
                \A g \in files : attempts[g] = 1

\* a run has ended with the read-failure record of one file and the analysis
\* of another one, neither of them from the cache
C21_Witness ==
    /\ mode = "lib" /\ pc = "done"
    /\ \E f \in DOMAIN results :
        /\ ~readable[f] /\ f \notin hits
        /\ results[f] = ErrorRecord(Sentinel)
    /\ \E g \in generated : g \in DOMAIN results /\ "analysis" \in DOMAIN results[g]

\* the run in progress scanned no file and its analysis phase is over
ZeroFileRunAnalysed == mode \in {"lib", "cli"} /\ pc # "collect" /\ files = {}

\* C22 (as claimed): after a scan that finds no file the result map is empty,
\* the cache file holds the empty map, and with a generation capability that
\* does not raise generate_readme returns the README
C22_ZeroFilesSavesEmptyCache ==
    ZeroFileRunAnalysed =>
        /\ results = EmptyMap
        /\ diskCache.state = "ok" /\ load_cache = EmptyMap
        /\ (stub = "returns" /\ mode = "cli") =>
            /\ pc # "crashed"
            /\ pc # "readme" => ReadmeFile \in artifacts

\* C22 (amended): after a scan that finds no file the result map is empty and
\* save_cache was called once; the cache file holds the empty map when the
\* write succeeded; with a generation capability that does not raise
\* generate_readme returns the README
C22_ZeroFilesSavesEmptyMapIfWritten ==
    ZeroFileRunAnalysed =>
        /\ results = EmptyMap
        /\ saveCalls = 1
        /\ saved = "ok" => diskCache.state = "ok" /\ load_cache = EmptyMap
        /\ (stub = "returns" /\ mode = "cli") =>
            /\ pc # "crashed"
            /\ pc # "readme" => ReadmeFile \in artifacts

\* every file was deleted, and main has written the empty map to the cache
\* file and the README
C22_Witness ==
    /\ ZeroFileRunAnalysed /\ mode = "cli" /\ stub = "returns" /\ pc = "done"
    /\ \A f \in Files : content[f] = 0
    /\ saved = "ok" /\ diskCache.state = "ok" /\ load_cache = EmptyMap
    /\ ReadmeFile \in artifacts

\* positions of generation_worker up to the stop test after the analysis loop
GuiAnalysisPhase == {"gui_scan", "gui_loop", "gui_llm", "gui_stopped"}

\* C23: up to and including the return that the stop flag causes in the
\* analysis phase, no step of the front-end worker calls save_cache, writes
\* a document or changes the cache file; and when check_queue ends a run that
\* returned so, the cache file is still untouched and the records the run
\* computed are gone
C23_StoppedRunLeavesNoTrace ==
    [][/\ (mode' = "gui" /\ pc' \in GuiAnalysisPhase) =>
            /\ diskCache' = diskCache
            /\ saveCalls' = 0 /\ saved' = "no"
            /\ artifacts' = {}
       /\ (mode = "gui" /\ pc = "gui_stopped") =>
            /\ diskCache' = diskCache
            /\ pc' # pc => mode' = "idle" /\ results' = EmptyMap /\ artifacts' = {}
            /\ prev' = NoPrev
      ]_vars

\* the worker has returned on the stop flag with a record computed and a
\* file left unanalysed
C23_Witness ==
    /\ mode = "gui" /\ pc = "gui_stopped"
    /\ results # EmptyMap /\ pending # {}
    /\ saveCalls = 0 /\ artifacts = {}

\* the front end is ready for a run: no worker, the flag down, Generate
\* enabled and Stop disabled
FrontEndReady ==
    /\ ActiveThreads = {}
    /\ ~is_running
    /\ generate_button = "normal" /\ stop_button = "disabled"

\* the "finished" events waiting on the queue
FinishedWaiting ==
    {i \in 1..Len(progress_queue) : progress_queue[i].action = "finished"}

\* C24: a worker puts no "finished" event while it runs and has put exactly
\* one, as its last event, when it has returned, whichever way it left; the
\* step of check_queue that takes "finished" leaves is_running false, the
\* Generate button enabled and the Stop button disabled; and with the worker
\* scheduled and check_queue called again and again, a front end whose
\* Generate button a run has disabled becomes ready again
C24_FinishedOnceThenReady ==
    /\ [](\A t \in ThreadIds :
            /\ threads[t].finished = (IF threads[t].pc = "ended" THEN 1 ELSE 0)
            /\ threads[t].pc = "ended" => threads[t].last = "finished")
    /\ [][(progress_queue # <<>> /\ Head(progress_queue).action = "finished"
              /\ progress_queue' = Tail(progress_queue))
            => (~is_running' /\ generate_button' = "normal"
                  /\ stop_button' = "disabled")]_vars
    /\ (generate_button = "disabled" ~> FrontEndReady)

\* a run that an exception ended has put its "finished", check_queue has taken
\* it, and the front end is ready again
C24_Witness ==
    /\ FrontEndReady /\ progress_queue = <<>>
    /\ \E t \in ThreadIds :
        threads[t].pc = "ended" /\ threads[t].exc /\ threads[t].finished = 1

\* C25: never two workers at a time; and while a worker runs or its
\* "finished" event waits on the queue, the Generate button is disabled, so
\* that start_generation cannot run, whatever is_running says
C25_AtMostOneWorker ==
    /\ Cardinality(ActiveThreads) <= 1
    /\ (ActiveThreads # {} \/ FinishedWaiting # {}) =>
        /\ generate_button = "disabled"
        /\ ~ENABLED start_generation

\* stop_generation has reset is_running while the worker waits for ask_llm,
\* and a further run could still be started later
C25_Witness ==
    /\ ~is_running /\ events < MaxEvents
    /\ \E t \in ThreadIds : threads[t].pc = "llm"

\* the worker is between its replacement of print and the inner finally
PrintReplacedBy(t) ==
    threads[t].pc \in {"scan", "loop", "llm", "after_loop", "readme", "components",
                       "api", "restore"}

\* C26: print is custom_print only while a worker is between the replacement
\* and its inner finally, and what that worker will restore is the original
\* print; on every way out of the worker, and whenever no worker runs,
\* builtins.print is the original print
C26_PrintRestored ==
    /\ \A t \in ThreadIds :
        PrintReplacedBy(t) =>
            /\ builtins_print = custom_print(t)
            /\ threads[t].original_print = OriginalPrint
    /\ (\A t \in ThreadIds : ~PrintReplacedBy(t)) => builtins_print = OriginalPrint
    /\ ActiveThreads = {} => builtins_print = OriginalPrint

\* one run has returned on the stop flag and a later one has died of an
\* exception of ask_llm, both after replacing print, and print is the original
C26_Witness ==
    /\ ActiveThreads = {} /\ builtins_print = OriginalPrint
    /\ events >= 2
    /\ \E t \in ThreadIds : threads[t].pc = "ended" /\ threads[t].exc

CompletedLabel == "Generation completed successfully"
StoppedLabel == "Generation stopped"

\* check_queue has taken the "finished" event of the run of thread t
FinishedProcessed(t) ==
    /\ threads[t].pc = "ended"
    /\ FinishedWaiting = {}
    /\ generate_button = "normal"

\* C27: once check_queue has taken a run's "finished" event, the status label
\* says that the generation completed when the run put progress 100 on the
\* queue, and that it stopped when it did not, a handled exception included
C27_StatusAfterFinished ==
    \A t \in ThreadIds :
        FinishedProcessed(t) =>
            status_label = (IF threads[t].hundred THEN CompletedLabel ELSE StoppedLabel)

\* a run that died of an exception in a document step, after the analysis was
\* saved: its "Error" status was overwritten by "Generation stopped"
C27_Witness ==
    \E t \in ThreadIds :
        /\ FinishedProcessed(t)
        /\ threads[t].exc /\ ~threads[t].hundred
        /\ saveCalls = 1
        /\ status_label = StoppedLabel

====
